---- MODULE Spec2Model ----
(***************************************************************************)
(* Model of the YouTube channel scraper: YouTubeScraper.search_channels /  *)
(* search_single_channel, extract_social_links /                           *)
(* extract_single_channel_links, _normalize_platform and the selenium      *)
(* helpers they call.                                                      *)
(*                                                                         *)
(* Strings are sequences of tokens (a token is a TLA+ string), so that     *)
(* lower(), strip(), replace(), concatenation and substring tests are      *)
(* computed and not assumed.                                               *)
(***************************************************************************)
EXTENDS Integers, Sequences, FiniteSets, Bags, TLC

VARIABLES
    api,          \* the batch API under execution
    items,        \* its input list (channel_names or channel_urls)
    max_workers,  \* self.max_workers
    batch,        \* position of the batch API: "collecting", "returned", "raised"
    pc,           \* position of each item's worker invocation
    retries,      \* local retries of search_single_channel
    depth,        \* recursion depth of create_chrome_driver
    driver,       \* state of the session the local driver refers to
    leaked,       \* open sessions that no variable refers to any more
    got,          \* results of the safe_get calls of the current (last) attempt
    slept,        \* seconds of backoff slept in the except block
    scanned,      \* elements of the current page section already visited
    links,        \* local results list of extract_single_channel_links
    flow,         \* how the call ended: "run" (not yet), "return", "raise", "fault"
    value,        \* return value of the call
    line,         \* source line of the return statement taken (0: none)
    site,         \* what the pages of each channel URL show
    results,      \* the results list of the batch API
    collected,    \* futures yielded by as_completed so far, in order
    platform_text, \* Normalizer input: link text
    url,          \* Normalizer input: link URL
    label,        \* Normalizer output
    avg_views,    \* categorize_views input
    category,     \* categorize_views output
    raw_url,      \* clean_youtube_redirect input
    unwrapped,    \* clean_youtube_redirect output
    close_errors  \* close_driver logged "Error closing driver" in the call
                  \* (written in the runs of a single call only)

vars == <<api, items, max_workers, batch, pc, retries, depth, driver, leaked,
          got, slept, scanned, links, flow, value, line, site, results,
          collected, platform_text, url, label, avg_views, category, raw_url,
          unwrapped, close_errors>>

\* the variables of the runs of categorize_views and clean_youtube_redirect
helperVars == <<avg_views, category, raw_url, unwrapped>>

\* the variables of the runs of the pure functions
normVars == <<platform_text, url, label, helperVars>>

(* ------------------------------ bounds -------------------------------- *)

\* length of the input list handed to a batch API
NumItems == 2

\* largest explicit max_workers argument tried (besides the default, None)
MaxWorkersArg == 1

\* depth at which the interpreter stops the recursion of create_chrome_driver
RecursionLimit == 1

\* largest number of elements in one page section (description anchors,
\* official-links entries) of the pages tried for a single extraction
MaxLinks == 2

(* ------------------------ program constants --------------------------- *)

MAX_WORKERS == 6

MAX_RETRIES == 3

(* ------------------------------ values -------------------------------- *)

\* Python None for a string-valued result
None == <<>>

NotFound == <<"Not Found">>

Error == <<"Error">>

\* Python None handed to a parameter annotated str; where the code only tests
\* truthiness None and "" behave alike and both are the empty sequence, but
\* None has no lower()
NoneArg == <<"None">>

\* the result of a call that has not been made yet
Pending == <<"pending">>

\* the exception of an attribute lookup on None, as the outcome of a call
AttributeError == <<"AttributeError">>

\* aliases as character sequences; the second one carries a space
Aliases == { <<"a">>, <<"a", " ">> }

\* channel URLs handed to extract_social_links
ChannelUrls ==
    { <<"https://www.youtube.com", "/", "@", "a">>,
      <<"https://www.youtube.com", "/", "@", "b", "x">> }

\* href attributes a search result anchor can carry (relative or absolute)
Hrefs == { <<"/", "@", "x">>, <<"https://www.youtube.com", "/", "@", "y">> }

\* input lists, taken up to reordering (the pool and as_completed treat every
\* position alike); duplicates are included
InputLists(S) ==
    { s \in [1..NumItems -> S] :
        \A i, j \in 1..NumItems : i < j => Len(s[i]) <= Len(s[j]) }

Tasks == 1..Len(items)

\* s contains the token sequence kw as a substring
Contains(s, kw) ==
    \E i \in 1..(Len(s) - Len(kw) + 1) : SubSeq(s, i, i + Len(kw) - 1) = kw

(* -------------------- selenium_utils helpers -------------------------- *)

\* channel_name.strip().replace(" ", "")
alias_clean(channel_name) == SelectSeq(channel_name, LAMBDA c : c # " ")

\* f"https://www.youtube.com/@{alias_clean}"
direct_url(channel_name) ==
    <<"https://www.youtube.com", "/", "@">> \o alias_clean(channel_name)

normalize_url(u) ==
    IF Len(u) > 0 /\ u[1] = "/"
    THEN <<"https://www.youtube.com">> \o u
    ELSE u

\* close_driver that never reaches quit()
close_driver_NoQuit(d) == d

\* close_driver(driver): quit() the session the variable refers to, if any;
\* an exception of quit() is logged and swallowed
close_driver(d) == IF d = "none" THEN "none" ELSE "closed"

\* position of the first occurrence of token c in s, 0 if there is none
IndexOf(s, c) ==
    IF \E i \in 1..Len(s) : s[i] = c
    THEN CHOOSE i \in 1..Len(s) : s[i] = c /\ \A j \in 1..(i - 1) : s[j] # c
    ELSE 0

\* the part of s after its first token c (empty if c does not occur)
After(s, c) ==
    IF IndexOf(s, c) = 0 THEN <<>> ELSE SubSeq(s, IndexOf(s, c) + 1, Len(s))

\* the part of s before its first token c (all of s if c does not occur)
Before(s, c) ==
    IF IndexOf(s, c) = 0 THEN s ELSE SubSeq(s, 1, IndexOf(s, c) - 1)

\* the decoding parse_qs applies to one token of a value: "+" is a space,
\* a percent escape is the character it stands for
UnquoteToken(c) ==
    CASE c = "+" -> " "
      [] c = "%2F" -> "/"
      [] c = "%3F" -> "?"
      [] c = "%3D" -> "="
      [] c = "%26" -> "&"
      [] c = "https%3A%2F%2F" -> "https://"
      [] OTHER -> c

unquote(s) == [i \in 1..Len(s) |-> UnquoteToken(s[i])]

\* parse_qs(urlparse(url).query)['q'][0]: the decoded value of the first
\* non-blank q parameter of the query string, None if there is none
RECURSIVE QueryQ(_)
QueryQ(query) ==
    IF query = <<>> THEN None
    ELSE LET param == Before(query, "&")
             rest == After(query, "&")
         IN IF Len(param) >= 3 /\ param[1] = "q" /\ param[2] = "="
            THEN unquote(SubSeq(param, 3, Len(param)))
            ELSE QueryQ(rest)

clean_youtube_redirect(u) ==
    IF u # None /\ Contains(u, <<"redirect">>)
    THEN LET q == QueryQ(Before(After(u, "?"), "#"))
         IN IF q # None THEN q ELSE u
    ELSE u

(* --------------------- _normalize_platform ---------------------------- *)

\* str.lower() on one token
LowerToken(c) ==
    CASE c = "Instagram" -> "instagram"
      [] c = "INSTAGRAM" -> "instagram"
      [] c = "TikTok" -> "tiktok"
      [] c = "Twitter" -> "twitter"
      [] c = "Facebook" -> "facebook"
      [] c = "Telegram" -> "telegram"
      [] c = "Discord" -> "discord"
      [] c = "Snapchat" -> "snapchat"
      [] c = "X" -> "x"
      [] c = "My" -> "my"
      [] c = "Email" -> "email"
      [] c = "Site" -> "site"
      [] OTHER -> c

lower(s) == [i \in 1..Len(s) |-> LowerToken(s[i])]

\* the labels of the if/elif chain, in its order
Labels ==
    <<"Instagram", "TikTok", "X (Twitter)", "Facebook", "Telegram", "Discord",
      "Snapchat", "YouTube Channel", "Email">>

\* the condition of the i-th branch of the chain
Rule(i, platform_lower, url_lower) ==
    CASE i = 1 -> Contains(url_lower, <<"instagram">>)
                  \/ Contains(platform_lower, <<"instagram">>)
      [] i = 2 -> Contains(url_lower, <<"tiktok">>)
                  \/ Contains(platform_lower, <<"tiktok">>)
      [] i = 3 -> Contains(url_lower, <<"twitter">>)
                  \/ Contains(url_lower, <<"x", ".com">>)
                  \/ Contains(platform_lower, <<"twitter">>)
      [] i = 4 -> Contains(url_lower, <<"facebook">>)
                  \/ Contains(platform_lower, <<"facebook">>)
      [] i = 5 -> Contains(url_lower, <<"telegram">>)
                  \/ Contains(url_lower, <<"t", ".me">>)
                  \/ Contains(platform_lower, <<"telegram">>)
      [] i = 6 -> Contains(url_lower, <<"discord">>)
                  \/ Contains(url_lower, <<"discord", ".gg">>)
      [] i = 7 -> Contains(url_lower, <<"snapchat">>)
                  \/ Contains(platform_lower, <<"snapchat">>)
      [] i = 8 -> Contains(url_lower, <<"youtube", ".com", "/", "channel">>)
                  \/ Contains(url_lower, <<"youtube", ".com", "/", "c", "/">>)
      [] i = 9 -> Contains(url_lower, <<"@">>)

\* a chain in which a later branch overrides an earlier one
_normalize_platform_LastMatch(text, u) ==
    LET platform_lower == lower(text)
        url_lower == lower(u)
        hits == { i \in 1..Len(Labels) : Rule(i, platform_lower, url_lower) }
    IN IF text = NoneArg \/ u = NoneArg THEN AttributeError
       ELSE IF hits = {} THEN None
       ELSE <<Labels[CHOOSE i \in hits : \A j \in hits : i >= j]>>

\* platform_text.lower() and url.lower() raise AttributeError on None; else
\* the label of the first branch whose condition holds, None if none does
_normalize_platform(text, u) ==
    LET platform_lower == lower(text)
        url_lower == lower(u)
        hits == { i \in 1..Len(Labels) : Rule(i, platform_lower, url_lower) }
    IN IF text = NoneArg \/ u = NoneArg THEN AttributeError
       ELSE IF hits = {} THEN None
       ELSE <<Labels[CHOOSE i \in hits : \A j \in hits : i <= j]>>

(* ------------------------- page contents ------------------------------ *)

InstagramAnchor ==
    [text |-> <<"Instagram">>,
     href |-> <<"https://www.youtube.com", "/", "redirect", "?", "event", "=",
                "desc", "&", "q", "=", "https://", "instagram", ".com", "/",
                "u">>]

TelegramAnchor ==
    [text |-> <<"chat">>, href |-> <<"https://", "t", ".me", "/", "u">>]

PlainAnchor ==
    [text |-> <<"My", "Site">>, href |-> <<"https://", "example", ".com">>]

TikTokEntry ==
    [wellformed |-> TRUE, text |-> <<"TikTok">>,
     href |-> <<"https://", "vm", ".example", "/", "t">>]

BrokenEntry == [wellformed |-> FALSE, text |-> <<>>, href |-> None]

PlainEntry ==
    [wellformed |-> TRUE, text |-> <<"Blog">>,
     href |-> <<"https://", "example", ".com">>]

\* anchors the description container can hold: a redirect-wrapped Instagram
\* link, a Telegram short link, a link no rule matches, an anchor without href
DescLinks ==
    { InstagramAnchor, TelegramAnchor, PlainAnchor,
      [text |-> <<>>, href |-> None] }

\* entries the official-links section can hold: a TikTok link recognisable
\* by its title only, an entry lacking a sub-element, and an unmatched one
AboutEntries == { TikTokEntry, BrokenEntry, PlainEntry }

SeqsUpTo(S, n) == UNION { [1..k -> S] : k \in 0..n }

\* the pages tried for a single extraction
Pages ==
    [description : SeqsUpTo(DescLinks, MaxLinks),
     about : SeqsUpTo(AboutEntries, MaxLinks)]

\* the pages behind the channel URLs of a batch run: the first channel shows
\* two links in its description and one among its entries, the second shows
\* one link after an element no rule matches
SampleSite ==
    [u \in ChannelUrls |->
       IF Len(u) = 4
       THEN [description |-> <<InstagramAnchor, TelegramAnchor>>,
             about |-> <<BrokenEntry, TikTokEntry>>]
       ELSE [description |-> <<PlainAnchor>>, about |-> <<TikTokEntry>>]]

(* ------------------------- YouTubeScraper ----------------------------- *)

\* self.max_workers = max_workers or getattr(config, 'MAX_WORKERS', 6)
init_max_workers(arg) == IF arg # 0 THEN arg ELSE MAX_WORKERS

\* a loop test that gives up one attempt early
LoopGuard_OneShort(r) == r < MAX_RETRIES - 1

\* while retries < max_retries
LoopGuard(r) == r < MAX_RETRIES

\* a schedule that starts at one second
wait_time_FromOne(r) == 2 ^ (r - 1)

\* wait_time = 2 ** retries
wait_time(r) == 2 ^ r

InFlight == { t \in Tasks : pc[t] \notin {"queued", "done"} }

\* a pool that starts every submitted item at once
PoolHasFreeWorker_Unbounded == TRUE

\* ThreadPoolExecutor(max_workers=self.max_workers): a queued item is taken
\* by a worker thread only while fewer than max_workers are busy
PoolHasFreeWorker == Cardinality(InFlight) < max_workers

\* number of browser sessions of task t that are open
OpenSessions(t) == leaked[t] + (IF driver[t] = "open" THEN 1 ELSE 0)

batchVars == <<api, items, max_workers, batch, site, results, collected>>

Init ==
    /\ api \in {"search_channels", "extract_social_links"}
    /\ items \in (IF api = "search_channels" THEN InputLists(Aliases)
                  ELSE InputLists(ChannelUrls))
    /\ \E arg \in 0..MaxWorkersArg : max_workers = init_max_workers(arg)
    /\ batch = "collecting"
    /\ pc = [t \in 1..NumItems |-> "queued"]
    /\ retries = [t \in 1..NumItems |-> 0]
    /\ depth = [t \in 1..NumItems |-> 0]
    /\ driver = [t \in 1..NumItems |-> "none"]
    /\ leaked = [t \in 1..NumItems |-> 0]
    /\ got = [t \in 1..NumItems |-> <<>>]
    /\ slept = [t \in 1..NumItems |-> 0]
    /\ scanned = [t \in 1..NumItems |-> 0]
    /\ links = [t \in 1..NumItems |-> <<>>]
    /\ flow = [t \in 1..NumItems |-> "run"]
    /\ value = [t \in 1..NumItems |-> None]
    /\ line = [t \in 1..NumItems |-> 0]
    /\ site = SampleSite
    /\ results = <<>>
    /\ collected = <<>>
    /\ platform_text = <<>>
    /\ url = <<>>
    /\ label = None
    /\ avg_views = None
    /\ category = None
    /\ raw_url = None
    /\ unwrapped = None
    /\ close_errors = [t \in 1..NumItems |-> FALSE]

\* the call ends (fl: "return", "raise" or "fault") with its session in state
\* d: the frame is gone, and a session that is still open stays open with
\* nothing referring to it
Leave(t, fl, val, ln, g, d) ==
    /\ pc' = [pc EXCEPT ![t] = "done"]
    /\ flow' = [flow EXCEPT ![t] = fl]
    /\ value' = [value EXCEPT ![t] = val]
    /\ line' = [line EXCEPT ![t] = ln]
    /\ got' = [got EXCEPT ![t] = g]
    /\ driver' = [driver EXCEPT ![t] = "none"]
    /\ leaked' = [leaked EXCEPT ![t] = @ + (IF d = "open" THEN 1 ELSE 0)]
    /\ retries' = [retries EXCEPT ![t] = 0]
    /\ slept' = [slept EXCEPT ![t] = 0]
    /\ scanned' = [scanned EXCEPT ![t] = 0]
    /\ links' = [links EXCEPT ![t] = <<>>]

\* driver.quit() is called (the variable refers to a session) and raises
QuitRaised(t, q) == q /\ driver[t] # "none"

\* a close_driver that calls quit() outside a try block
close_driver_propagates_Unguarded(quit_raised) == quit_raised

\* close_driver wraps quit() in try/except Exception and logs: an exception
\* of quit() never reaches the caller of close_driver
close_driver_propagates(quit_raised) == FALSE

\* the outcomes of quit() the caller of close_driver can tell apart, one for
\* each way close_driver(driver) can end
CloseOutcomes(t) ==
    { CHOOSE q \in BOOLEAN : close_driver_propagates(QuitRaised(t, q)) = r :
        r \in { close_driver_propagates(QuitRaised(t, q)) : q \in BOOLEAN } }

\* the finally block runs su.close_driver(driver), in which quit() raises
\* iff q, while the call is about to end as Leave(t, fl, val, ln, g, d) says:
\* an exception leaving the finally block replaces the pending return
EndCall(t, fl, val, ln, g, d, q) ==
    IF close_driver_propagates(QuitRaised(t, q))
    THEN Leave(t, "raise", None, 0, g, d)
    ELSE Leave(t, fl, val, ln, g, d)

\* a worker thread takes the item submitted by
\* executor.submit(self.search_single_channel, name): driver = None,
\* retries = 0 and the first loop test
StartSearch(t) ==
    /\ api = "search_channels"
    /\ batch = "collecting"
    /\ pc[t] = "queued"
    /\ PoolHasFreeWorker
    /\ IF LoopGuard(0)
       THEN /\ pc' = [pc EXCEPT ![t] = "create"]
            /\ UNCHANGED <<retries, driver, leaked, got, slept, scanned,
                           links, flow, value, line>>
       ELSE Leave(t, "return", None, 105, <<>>, "none")
    /\ UNCHANGED <<batchVars, depth, normVars>>

\* a worker thread takes the item submitted by
\* executor.submit(self.extract_single_channel_links, url): driver = None,
\* results = []
StartExtract(t) ==
    /\ api = "extract_social_links"
    /\ batch = "collecting"
    /\ pc[t] = "queued"
    /\ PoolHasFreeWorker
    /\ pc' = [pc EXCEPT ![t] = "create"]
    /\ UNCHANGED <<batchVars, retries, depth, driver, leaked, got, slept,
                   scanned, links, flow, value, line, normVars>>

\* the callable of the item raises instead of running the method body (a
\* substituted worker): its future holds an exception
WorkerFault(t) ==
    /\ batch = "collecting"
    /\ pc[t] = "queued"
    /\ PoolHasFreeWorker
    /\ Leave(t, "fault", None, 0, <<>>, "none")
    /\ UNCHANGED <<batchVars, depth, normVars>>

\* create_chrome_driver succeeds: a new session, bound to the local driver
CreateOk(t) ==
    /\ pc[t] = "create"
    /\ driver' = [driver EXCEPT ![t] = "open"]
    /\ leaked' = [leaked EXCEPT ![t] = @ + (IF driver[t] = "open" THEN 1 ELSE 0)]
    /\ depth' = [depth EXCEPT ![t] = 0]
    /\ pc' = [pc EXCEPT ![t] = "body"]
    /\ UNCHANGED <<batchVars, retries, got, slept, scanned, links, flow,
                   value, line, normVars>>

\* create_chrome_driver fails before a session exists: it logs, sleeps 2 s
\* and calls itself again
CreateFail(t) ==
    /\ pc[t] = "create"
    /\ depth[t] < RecursionLimit
    /\ depth' = [depth EXCEPT ![t] = @ + 1]
    /\ UNCHANGED <<batchVars, pc, retries, driver, leaked, got, slept,
                   scanned, links, flow, value, line, normVars>>

\* except Exception in search_single_channel: retries += 1, log, and back off
\* for 2 ** retries seconds when attempts remain; the finally block follows
ExceptBlock(t) ==
    /\ retries' = [retries EXCEPT ![t] = @ + 1]
    /\ slept' = [slept EXCEPT ![t] =
                   IF LoopGuard(retries[t] + 1) THEN wait_time(retries[t] + 1)
                   ELSE 0]
    /\ got' = [got EXCEPT ![t] = <<>>]
    /\ pc' = [pc EXCEPT ![t] = "backoff"]

\* the recursion of create_chrome_driver is cut by the interpreter and the
\* exception is re-raised through every frame into the attempt
CreateRaise(t) ==
    /\ api = "search_channels"
    /\ pc[t] = "create"
    /\ depth[t] = RecursionLimit
    /\ depth' = [depth EXCEPT ![t] = 0]
    /\ ExceptBlock(t)
    /\ UNCHANGED <<batchVars, driver, leaked, scanned, links, flow, value,
                   line, normVars>>

\* what the environment does to one attempt: the direct fetch (safe_get
\* result and what the page shows) and, if reached, the search fetch
DirectOutcomes ==
    { <<FALSE, "missing">>, <<TRUE, "missing">>, <<TRUE, "channel">>,
      <<TRUE, "raise">> }

SearchOutcomes == {<<"raise">>, <<"timeout">>, <<"empty">>} \cup Hrefs

\* an attempt that raises when it finds no channel, so that it is retried
AttemptBody_RetryAbsent(name, d, s) ==
    IF d[1] /\ d[2] = "raise"
    THEN [got |-> <<TRUE>>, flow |-> "except", value |-> None, line |-> 0]
    ELSE IF d[1] /\ d[2] = "channel"
    THEN [got |-> <<TRUE>>, flow |-> "return", value |-> direct_url(name),
          line |-> 68]
    ELSE IF s = <<"raise">>
    THEN [got |-> <<d[1]>>, flow |-> "except", value |-> None, line |-> 0]
    ELSE IF s \in Hrefs
    THEN [got |-> <<d[1], TRUE>>, flow |-> "return",
          value |-> normalize_url(s), line |-> 88]
    ELSE [got |-> <<d[1], s # <<"timeout">> >>, flow |-> "except",
          value |-> None, line |-> 0]

\* an attempt that fetches the search page before it returns the direct URL
AttemptBody_SearchAnyway(name, d, s) ==
    IF d[1] /\ d[2] = "raise"
    THEN [got |-> <<TRUE>>, flow |-> "except", value |-> None, line |-> 0]
    ELSE IF d[1] /\ d[2] = "channel"
    THEN [got |-> <<TRUE, s \notin {<<"timeout">>, <<"raise">>}>>,
          flow |-> "return", value |-> direct_url(name), line |-> 68]
    ELSE IF s = <<"raise">>
    THEN [got |-> <<d[1]>>, flow |-> "except", value |-> None, line |-> 0]
    ELSE IF s \in Hrefs
    THEN [got |-> <<d[1], TRUE>>, flow |-> "return",
          value |-> normalize_url(s), line |-> 88]
    ELSE [got |-> <<d[1], s # <<"timeout">> >>, flow |-> "return",
          value |-> None, line |-> 91]

\* the try block of one attempt once the session exists (lines 61-91): the
\* safe_get results, and how control leaves the block
AttemptBody(name, d, s) ==
    IF d[1] /\ d[2] = "raise"
    THEN [got |-> <<TRUE>>, flow |-> "except", value |-> None, line |-> 0]
    ELSE IF d[1] /\ d[2] = "channel"
    THEN [got |-> <<TRUE>>, flow |-> "return", value |-> direct_url(name),
          line |-> 68]
    ELSE IF s = <<"raise">>
    THEN [got |-> <<d[1]>>, flow |-> "except", value |-> None, line |-> 0]
    ELSE IF s \in Hrefs
    THEN [got |-> <<d[1], TRUE>>, flow |-> "return",
          value |-> normalize_url(s), line |-> 88]
    ELSE [got |-> <<d[1], s # <<"timeout">> >>, flow |-> "return",
          value |-> None, line |-> 91]

\* the ways one attempt on the alias can go, over all the environment does
AttemptOutcomes(name) ==
    { AttemptBody(name, d, s) : d \in DirectOutcomes, s \in SearchOutcomes }

\* the session state a return statement inside try leaves behind: the
\* finally block closes the driver before the value reaches the caller
OnReturn(d) == close_driver(d)

\* one attempt of search_single_channel: a return runs the finally block and
\* ends the call; an exception runs the except block
Attempt(t, q) ==
    /\ api = "search_channels"
    /\ pc[t] = "body"
    /\ \E o \in AttemptOutcomes(items[t]) :
           IF o.flow = "except"
           THEN /\ ExceptBlock(t)
                /\ UNCHANGED <<driver, leaked, scanned, links, flow, value,
                               line>>
           ELSE EndCall(t, "return", o.value, o.line, o.got,
                        OnReturn(driver[t]), q)
    /\ UNCHANGED <<batchVars, depth, normVars>>

\* a retry loop that closes the session only when the call ends
Finally_KeepsSession(t, q) ==
    /\ api = "search_channels"
    /\ pc[t] = "backoff"
    /\ IF LoopGuard(retries[t])
       THEN /\ pc' = [pc EXCEPT ![t] = "create"]
            /\ slept' = [slept EXCEPT ![t] = 0]
            /\ UNCHANGED <<retries, driver, leaked, got, scanned, links, flow,
                           value, line>>
       ELSE EndCall(t, "return", None, 105, <<>>, close_driver(driver[t]), q)
    /\ UNCHANGED <<batchVars, depth, normVars>>

\* finally after the except block: su.close_driver(driver); then the next
\* loop test, and "return None" when the loop ends
Finally(t, q) ==
    /\ api = "search_channels"
    /\ pc[t] = "backoff"
    /\ IF LoopGuard(retries[t]) /\ ~close_driver_propagates(QuitRaised(t, q))
       THEN /\ driver' = [driver EXCEPT ![t] = close_driver(@)]
            /\ pc' = [pc EXCEPT ![t] = "create"]
            /\ slept' = [slept EXCEPT ![t] = 0]
            /\ UNCHANGED <<retries, leaked, got, scanned, links, flow, value,
                           line>>
       ELSE EndCall(t, "return", None, 105, <<>>, close_driver(driver[t]), q)
    /\ UNCHANGED <<batchVars, depth, normVars>>

\* future.result() raises the exception the future holds
ResultRaises(fl) == fl \in {"raise", "fault"}

\* the record search_channels appends for a completed future
SearchRecord(name, fl, val) ==
    IF ResultRaises(fl)
    THEN [alias |-> name, channel_url |-> Error]
    ELSE [alias |-> name,
          channel_url |-> IF val # None THEN val ELSE NotFound]

\* a collector that appends nothing for a future that raised
Collect_DropOnRaise(t) ==
    /\ api = "search_channels"
    /\ batch = "collecting"
    /\ pc[t] = "done"
    /\ \A i \in 1..Len(collected) : collected[i] # t
    /\ results' = IF ResultRaises(flow[t]) THEN results
                  ELSE Append(results, SearchRecord(items[t], flow[t], value[t]))
    /\ collected' = Append(collected, t)
    /\ UNCHANGED <<api, items, max_workers, batch, site, pc, retries, depth,
                   driver, leaked, got, slept, scanned, links, flow, value,
                   line, normVars>>

\* one iteration of "for future in as_completed(futures)" in search_channels
Collect(t) ==
    /\ api = "search_channels"
    /\ batch = "collecting"
    /\ pc[t] = "done"
    /\ \A i \in 1..Len(collected) : collected[i] # t
    /\ results' = Append(results, SearchRecord(items[t], flow[t], value[t]))
    /\ collected' = Append(collected, t)
    /\ UNCHANGED <<api, items, max_workers, batch, site, pc, retries, depth,
                   driver, leaked, got, slept, scanned, links, flow, value,
                   line, normVars>>

\* as_completed is exhausted, the executor shuts down, results are returned
Return ==
    /\ batch = "collecting"
    /\ Len(collected) = Len(items)
    /\ batch' = "returned"
    /\ UNCHANGED <<api, items, max_workers, site, results, collected, pc,
                   retries, depth, driver, leaked, got, slept, scanned, links,
                   flow, value, line, normVars>>

(* ------------------ extract_single_channel_links ---------------------- *)

\* the (platform, url) pair an anchor or entry contributes, as a list:
\* clean_youtube_redirect, then _normalize_platform, then the two "if"s
PairsOf(text, href) ==
    LET clean_url == clean_youtube_redirect(href)
        platform == IF clean_url # None
                    THEN _normalize_platform(text, clean_url) ELSE None
    IN IF clean_url # None /\ platform # None
       THEN << [platform |-> platform[1], url |-> clean_url] >>
       ELSE <<>>

\* the session state the finally block of extract_single_channel_links
\* leaves behind
ExFinally(d) == close_driver(d)

\* create_chrome_driver raises in extract_single_channel_links: the except
\* block logs, the finally block closes nothing, results (empty) is returned
ExCreateRaise(t) ==
    /\ api = "extract_social_links"
    /\ pc[t] = "create"
    /\ depth[t] = RecursionLimit
    /\ depth' = [depth EXCEPT ![t] = 0]
    /\ Leave(t, "return", links[t], 232, <<>>, ExFinally(driver[t]))
    /\ UNCHANGED <<batchVars, normVars>>

\* an extraction that goes on to the description scan whatever the fetch of
\* the featured page gave
Featured_ContinueOnFailure(t, q) ==
    /\ api = "extract_social_links"
    /\ pc[t] = "body"
    /\ \E ok \in BOOLEAN :
         /\ pc' = [pc EXCEPT ![t] = "description"]
         /\ got' = [got EXCEPT ![t] = <<ok>>]
         /\ scanned' = [scanned EXCEPT ![t] = 0]
         /\ UNCHANGED <<retries, driver, leaked, slept, links, flow, value,
                        line>>
    /\ UNCHANGED <<batchVars, depth, normVars>>

\* safe_get(featured_url); on failure "return []", else the best-effort
\* click on the "more" button and the lookup of the description anchors
Featured(t, q) ==
    /\ api = "extract_social_links"
    /\ pc[t] = "body"
    /\ \E ok \in BOOLEAN :
         IF ok
         THEN /\ pc' = [pc EXCEPT ![t] = "description"]
              /\ got' = [got EXCEPT ![t] = <<TRUE>>]
              /\ scanned' = [scanned EXCEPT ![t] = 0]
              /\ UNCHANGED <<retries, driver, leaked, slept, links, flow,
                             value, line>>
         ELSE EndCall(t, "return", <<>>, 169, <<FALSE>>,
                      ExFinally(driver[t]), q)
    /\ UNCHANGED <<batchVars, depth, normVars>>

\* a description loop that puts each new pair in front of the list
DescLink_Prepend(t) ==
    /\ pc[t] = "description"
    /\ scanned[t] < Len(site[items[t]].description)
    /\ LET link_el == site[items[t]].description[scanned[t] + 1] IN
         links' = [links EXCEPT ![t] = PairsOf(link_el.text, link_el.href) \o @]
    /\ scanned' = [scanned EXCEPT ![t] = @ + 1]
    /\ UNCHANGED <<batchVars, pc, retries, depth, driver, leaked, got, slept,
                   flow, value, line, normVars>>

\* one iteration of "for link_el in desc_links"
DescLink(t) ==
    /\ pc[t] = "description"
    /\ scanned[t] < Len(site[items[t]].description)
    /\ LET link_el == site[items[t]].description[scanned[t] + 1] IN
         links' = [links EXCEPT ![t] = @ \o PairsOf(link_el.text, link_el.href)]
    /\ scanned' = [scanned EXCEPT ![t] = @ + 1]
    /\ UNCHANGED <<batchVars, pc, retries, depth, driver, leaked, got, slept,
                   flow, value, line, normVars>>

\* the description loop ends; safe_get(about_url): on success the settle
\* delay and the lookup of the entries, on failure the section is skipped
\* and results is returned
About(t, q) ==
    /\ pc[t] = "description"
    /\ scanned[t] = Len(site[items[t]].description)
    /\ \E ok \in BOOLEAN :
         IF ok
         THEN /\ pc' = [pc EXCEPT ![t] = "about"]
              /\ got' = [got EXCEPT ![t] = Append(@, TRUE)]
              /\ scanned' = [scanned EXCEPT ![t] = 0]
              /\ UNCHANGED <<retries, driver, leaked, slept, links, flow,
                             value, line>>
         ELSE EndCall(t, "return", links[t], 232, Append(got[t], FALSE),
                      ExFinally(driver[t]), q)
    /\ UNCHANGED <<batchVars, depth, normVars>>

\* a scan that stops at the first entry whose sub-element lookup raises
AboutEntry_StopAtBroken(t) ==
    /\ pc[t] = "about"
    /\ scanned[t] < Len(site[items[t]].about)
    /\ LET el == site[items[t]].about[scanned[t] + 1] IN
         /\ links' = [links EXCEPT ![t] =
                        IF el.wellformed THEN @ \o PairsOf(el.text, el.href)
                        ELSE @]
         /\ scanned' = [scanned EXCEPT ![t] =
                          IF el.wellformed THEN @ + 1
                          ELSE Len(site[items[t]].about)]
    /\ UNCHANGED <<batchVars, pc, retries, depth, driver, leaked, got, slept,
                   flow, value, line, normVars>>

\* one iteration of "for el in link_elements": an entry whose sub-element
\* lookup raises is skipped by the inner except
AboutEntry(t) ==
    /\ pc[t] = "about"
    /\ scanned[t] < Len(site[items[t]].about)
    /\ LET el == site[items[t]].about[scanned[t] + 1] IN
         links' = [links EXCEPT ![t] =
                     IF el.wellformed THEN @ \o PairsOf(el.text, el.href)
                     ELSE @]
    /\ scanned' = [scanned EXCEPT ![t] = @ + 1]
    /\ UNCHANGED <<batchVars, pc, retries, depth, driver, leaked, got, slept,
                   flow, value, line, normVars>>

\* the entries loop ends: log, finally close the driver, return results
AboutEnd(t, q) ==
    /\ pc[t] = "about"
    /\ scanned[t] = Len(site[items[t]].about)
    /\ EndCall(t, "return", links[t], 232, got[t], ExFinally(driver[t]), q)
    /\ UNCHANGED <<batchVars, depth, normVars>>

\* an except block that re-raises and loses what was collected
OnExtractException_Reraise(collectedLinks) ==
    [flow |-> "raise", value |-> <<>>, line |-> 228]

\* how extract_single_channel_links ends when a statement of its try block
\* raises: except Exception logs, finally closes, results is returned
OnExtractException(collectedLinks) ==
    [flow |-> "return", value |-> collectedLinks, line |-> 232]

\* an exception in the try block outside the inner try of the entries loop
ExtractFault(t, q) ==
    /\ api = "extract_social_links"
    /\ pc[t] \in {"body", "description", "about"}
    /\ LET o == OnExtractException(links[t]) IN
         EndCall(t, o.flow, o.value, o.line, got[t], ExFinally(driver[t]), q)
    /\ UNCHANGED <<batchVars, depth, normVars>>

\* rows that all carry the URL submitted last, whichever future completed
ExtractRows_LastSubmitted(channel_url, fl, val) ==
    IF ResultRaises(fl)
    THEN <<>>
    ELSE [i \in 1..Len(val) |->
            [channel_url |-> items[Len(items)], platform |-> val[i].platform,
             url |-> val[i].url]]

\* the rows extract_social_links appends for a completed future: one per
\* link of the worker's list; an exception is logged only
ExtractRows(channel_url, fl, val) ==
    IF ResultRaises(fl)
    THEN <<>>
    ELSE [i \in 1..Len(val) |->
            [channel_url |-> channel_url, platform |-> val[i].platform,
             url |-> val[i].url]]

\* a collector whose future.result() is not inside a try block
ExCollect_Uncaught(t) ==
    /\ api = "extract_social_links"
    /\ batch = "collecting"
    /\ pc[t] = "done"
    /\ \A i \in 1..Len(collected) : collected[i] # t
    /\ IF ResultRaises(flow[t])
       THEN /\ batch' = "raised"
            /\ UNCHANGED <<results, collected>>
       ELSE /\ results' = results \o ExtractRows(items[t], flow[t], value[t])
            /\ collected' = Append(collected, t)
            /\ UNCHANGED batch
    /\ UNCHANGED <<api, items, max_workers, site, pc, retries, depth, driver,
                   leaked, got, slept, scanned, links, flow, value, line,
                   normVars>>

\* one iteration of "for future in as_completed(futures)" in
\* extract_social_links
ExCollect(t) ==
    /\ api = "extract_social_links"
    /\ batch = "collecting"
    /\ pc[t] = "done"
    /\ \A i \in 1..Len(collected) : collected[i] # t
    /\ results' = results \o ExtractRows(items[t], flow[t], value[t])
    /\ collected' = Append(collected, t)
    /\ UNCHANGED <<api, items, max_workers, batch, site, pc, retries, depth,
                   driver, leaked, got, slept, scanned, links, flow, value,
                   line, normVars>>

\* the log of close_driver is not recorded
NoLog == UNCHANGED close_errors

Next ==
    \/ \E t \in Tasks : StartSearch(t) /\ NoLog
    \/ \E t \in Tasks : StartExtract(t) /\ NoLog
    \/ \E t \in Tasks : WorkerFault(t) /\ NoLog
    \/ \E t \in Tasks : CreateOk(t) /\ NoLog
    \/ \E t \in Tasks : CreateFail(t) /\ NoLog
    \/ \E t \in Tasks : CreateRaise(t) /\ NoLog
    \/ \E t \in Tasks : \E q \in CloseOutcomes(t) : Attempt(t, q) /\ NoLog
    \/ \E t \in Tasks : \E q \in CloseOutcomes(t) : Finally(t, q) /\ NoLog
    \/ \E t \in Tasks : Collect(t) /\ NoLog
    \/ \E t \in Tasks : ExCreateRaise(t) /\ NoLog
    \/ \E t \in Tasks : \E q \in CloseOutcomes(t) : Featured(t, q) /\ NoLog
    \/ \E t \in Tasks : DescLink(t) /\ NoLog
    \/ \E t \in Tasks : \E q \in CloseOutcomes(t) : About(t, q) /\ NoLog
    \/ \E t \in Tasks : AboutEntry(t) /\ NoLog
    \/ \E t \in Tasks : \E q \in CloseOutcomes(t) : AboutEnd(t, q) /\ NoLog
    \/ \E t \in Tasks : \E q \in CloseOutcomes(t) : ExtractFault(t, q) /\ NoLog
    \/ \E t \in Tasks : ExCollect(t) /\ NoLog
    \/ Return /\ NoLog

Spec == Init /\ [][Next]_vars

(* ------------------ one extraction, any page -------------------------- *)

\* extract_social_links on a single channel URL whose pages are arbitrary
InitExtractOne ==
    /\ api = "extract_social_links"
    /\ items \in [1..1 -> ChannelUrls]
    /\ max_workers = MAX_WORKERS
    /\ batch = "collecting"
    /\ pc = <<"queued">>
    /\ retries = <<0>>
    /\ depth = <<0>>
    /\ driver = <<"none">>
    /\ leaked = <<0>>
    /\ got = << <<>> >>
    /\ slept = <<0>>
    /\ scanned = <<0>>
    /\ links = << <<>> >>
    /\ flow = <<"run">>
    /\ value = <<None>>
    /\ line = <<0>>
    /\ \E p \in Pages : site = [u \in ChannelUrls |-> p]
    /\ results = <<>>
    /\ collected = <<>>
    /\ platform_text = <<>>
    /\ url = <<>>
    /\ label = None
    /\ avg_views = None
    /\ category = None
    /\ raw_url = None
    /\ unwrapped = None
    /\ close_errors = <<FALSE>>

NextExtractOne ==
    \/ \E t \in Tasks : StartExtract(t) /\ NoLog
    \/ \E t \in Tasks : WorkerFault(t) /\ NoLog
    \/ \E t \in Tasks : CreateOk(t) /\ NoLog
    \/ \E t \in Tasks : CreateFail(t) /\ NoLog
    \/ \E t \in Tasks : ExCreateRaise(t) /\ NoLog
    \/ \E t \in Tasks : \E q \in CloseOutcomes(t) : Featured(t, q) /\ NoLog
    \/ \E t \in Tasks : DescLink(t) /\ NoLog
    \/ \E t \in Tasks : \E q \in CloseOutcomes(t) : About(t, q) /\ NoLog
    \/ \E t \in Tasks : AboutEntry(t) /\ NoLog
    \/ \E t \in Tasks : \E q \in CloseOutcomes(t) : AboutEnd(t, q) /\ NoLog
    \/ \E t \in Tasks : \E q \in CloseOutcomes(t) : ExtractFault(t, q) /\ NoLog
    \/ \E t \in Tasks : ExCollect(t) /\ NoLog
    \/ Return /\ NoLog

SpecExtractOne == InitExtractOne /\ [][NextExtractOne]_vars

(* ------------------ one call, with the log kept ----------------------- *)

\* close_driver logs "Error closing driver" when the quit() it calls raises;
\* it is called by the finally block, which runs when the call ends and
\* after the except block of search_single_channel
LogClose(t, q) ==
    close_errors' =
      [close_errors EXCEPT ![t] =
         @ \/ (QuitRaised(t, q) /\ (pc'[t] = "done" \/ pc[t] = "backoff"))]

\* search_channels or extract_social_links on a single item
InitCall ==
    /\ api \in {"search_channels", "extract_social_links"}
    /\ items \in (IF api = "search_channels" THEN [1..1 -> Aliases]
                  ELSE [1..1 -> ChannelUrls])
    /\ max_workers = MAX_WORKERS
    /\ batch = "collecting"
    /\ pc = <<"queued">>
    /\ retries = <<0>>
    /\ depth = <<0>>
    /\ driver = <<"none">>
    /\ leaked = <<0>>
    /\ got = << <<>> >>
    /\ slept = <<0>>
    /\ scanned = <<0>>
    /\ links = << <<>> >>
    /\ flow = <<"run">>
    /\ value = <<None>>
    /\ line = <<0>>
    /\ site = SampleSite
    /\ results = <<>>
    /\ collected = <<>>
    /\ platform_text = <<>>
    /\ url = <<>>
    /\ label = None
    /\ avg_views = None
    /\ category = None
    /\ raw_url = None
    /\ unwrapped = None
    /\ close_errors = <<FALSE>>

NextCall ==
    \/ \E t \in Tasks : StartSearch(t) /\ NoLog
    \/ \E t \in Tasks : StartExtract(t) /\ NoLog
    \/ \E t \in Tasks : WorkerFault(t) /\ NoLog
    \/ \E t \in Tasks : CreateOk(t) /\ NoLog
    \/ \E t \in Tasks : CreateFail(t) /\ NoLog
    \/ \E t \in Tasks : CreateRaise(t) /\ NoLog
    \/ \E t \in Tasks, q \in BOOLEAN : Attempt(t, q) /\ LogClose(t, q)
    \/ \E t \in Tasks, q \in BOOLEAN : Finally(t, q) /\ LogClose(t, q)
    \/ \E t \in Tasks : Collect(t) /\ NoLog
    \/ \E t \in Tasks : ExCreateRaise(t) /\ NoLog
    \/ \E t \in Tasks, q \in BOOLEAN : Featured(t, q) /\ LogClose(t, q)
    \/ \E t \in Tasks : DescLink(t) /\ NoLog
    \/ \E t \in Tasks, q \in BOOLEAN : About(t, q) /\ LogClose(t, q)
    \/ \E t \in Tasks : AboutEntry(t) /\ NoLog
    \/ \E t \in Tasks, q \in BOOLEAN : AboutEnd(t, q) /\ LogClose(t, q)
    \/ \E t \in Tasks, q \in BOOLEAN : ExtractFault(t, q) /\ LogClose(t, q)
    \/ \E t \in Tasks : ExCollect(t) /\ NoLog
    \/ Return /\ NoLog

SpecCall == InitCall /\ [][NextCall]_vars

(* ----------------------- Normalizer runs ------------------------------ *)

\* link texts and URLs handed to _normalize_platform, None included
Texts ==
    { NoneArg, <<>>, <<"Instagram">>, <<"INSTAGRAM">>, <<"TikTok">>, <<"Twitter">>,
      <<"Facebook">>, <<"Telegram">>, <<"Discord">>, <<"Snapchat">>,
      <<"My", "Email">>, <<"follow", "me", "on", "tiktok">> }

Urls ==
    { NoneArg, <<"https://", "example", ".com">>,
      <<"https://", "www.", "Instagram", ".com", "/", "u">>,
      <<"https://", "tiktok", ".com", "/", "@", "u">>,
      <<"https://", "twitter", ".com", "/", "u">>,
      <<"https://", "x", ".com", "/", "foo">>,
      <<"https://", "facebook", ".com", "/", "u">>,
      <<"https://", "t", ".me", "/", "u">>,
      <<"https://", "discord", ".gg", "/", "tiktok">>,
      <<"https://", "dsc", ".gg", "/", "u">>,
      <<"https://", "snapchat", ".com", "/", "add", "/", "u">>,
      <<"https://", "www.", "youtube", ".com", "/", "channel", "/", "UC1">>,
      <<"mailto:", "a", "@", "b", ".com">> }

InitNormalize ==
    /\ api = "_normalize_platform"
    /\ items = <<>>
    /\ max_workers = MAX_WORKERS
    /\ batch = "returned"
    /\ pc = <<>>
    /\ retries = <<>>
    /\ depth = <<>>
    /\ driver = <<>>
    /\ leaked = <<>>
    /\ got = <<>>
    /\ slept = <<>>
    /\ scanned = <<>>
    /\ links = <<>>
    /\ flow = <<>>
    /\ value = <<>>
    /\ line = <<>>
    /\ site = SampleSite
    /\ results = <<>>
    /\ collected = <<>>
    /\ platform_text \in Texts
    /\ url \in Urls
    /\ label = Pending
    /\ avg_views = None
    /\ category = None
    /\ raw_url = None
    /\ unwrapped = None
    /\ close_errors = <<>>

\* one call of _normalize_platform(platform_text, url)
Normalize ==
    /\ api = "_normalize_platform"
    /\ label = Pending
    /\ label' = _normalize_platform(platform_text, url)
    /\ UNCHANGED <<batchVars, pc, retries, depth, driver, leaked, got, slept,
                   scanned, links, flow, value, line, platform_text, url,
                   helperVars>>

NextNormalize == Normalize /\ UNCHANGED close_errors

SpecNormalize == InitNormalize /\ [][NextNormalize]_vars

(* ------------- categorize_views, clean_youtube_redirect --------------- *)

\* the list of (category, threshold) pairs; an Optional[int] is None or a
\* one-element sequence, and the empty threshold is float('inf')
categories ==
    << [name |-> "< 5k", threshold |-> <<5000>>],
       [name |-> "5k-10k", threshold |-> <<10000>>],
       [name |-> "10k-25k", threshold |-> <<25000>>],
       [name |-> "25k-50k", threshold |-> <<50000>>],
       [name |-> "50k-100k", threshold |-> <<100000>>],
       [name |-> "100k-250k", threshold |-> <<250000>>],
       [name |-> "250k-1M", threshold |-> <<1000000>>],
       [name |-> "1M+", threshold |-> <<>>] >>

\* a comparison that puts a value equal to the threshold into the bin
Below_Inclusive(v, threshold) == threshold = <<>> \/ v <= threshold[1]

\* avg_views < threshold
Below(v, threshold) == threshold = <<>> \/ v < threshold[1]

\* the category of the first pair whose threshold the value is below
categorize_views(v) ==
    IF v = None THEN <<"N/A">>
    ELSE LET hits == { i \in 1..Len(categories) :
                         Below(v[1], categories[i].threshold) }
         IN IF hits = {} THEN <<"1M+">>
            ELSE <<categories[CHOOSE i \in hits : \A j \in hits : i <= j].name>>

\* view counts around every threshold, and zero, negative and large ones
ViewCounts ==
    UNION { { c.threshold[1] + k : k \in -2..2 } :
              c \in { categories[i] : i \in 1..(Len(categories) - 1) } }
      \cup { -5000, -1, 0, 1, 2500, 2000000 }

AvgViews == { None } \cup { <<n>> : n \in ViewCounts }

\* link targets a redirect URL can wrap
Targets ==
    { <<"https://", "instagram", ".com", "/", "x">>,
      <<"https://", "t", ".me", "/", "u">> }

\* urllib.parse.quote(target, safe="") on one token
QuoteToken(c) ==
    CASE c = "https://" -> "https%3A%2F%2F"
      [] c = "/" -> "%2F"
      [] OTHER -> c

quote(s) == [i \in 1..Len(s) |-> QuoteToken(s[i])]

\* the redirect wrappers of a target: the q parameter alone or among other
\* parameters, its value plain or percent-encoded, with or without fragment
WrappersOf(target) ==
    LET root == <<"https://www.youtube.com", "/", "redirect", "?">>
    IN { root \o <<"q", "=">> \o target,
         root \o <<"q", "=">> \o quote(target),
         root \o <<"event", "=", "desc", "&", "q", "=">> \o quote(target),
         root \o <<"q", "=">> \o quote(target) \o <<"&", "v", "=", "1">>,
         root \o <<"q", "=", "&", "q", "=">> \o quote(target),
         root \o <<"q", "=">> \o target \o <<"#", "top">> }

\* URLs handed to clean_youtube_redirect: wrappers, plain links, wrappers
\* without a usable q, links that merely contain the word, and None
RawUrls ==
    UNION { WrappersOf(target) : target \in Targets }
      \cup Targets
      \cup { None,
             <<"https://", "example", ".com">>,
             <<"https://www.youtube.com", "/", "redirect", "?", "q", "=">>,
             <<"https://www.youtube.com", "/", "redirect", "?", "event", "=",
               "desc">>,
             <<"https://www.youtube.com", "/", "Redirect", "?", "q", "=",
               "a">>,
             <<"https://", "example", ".com", "/", "page", "?", "q", "=", "1",
               "&", "ref", "=", "redirect">>,
             <<"https://", "t", ".me", "/", "redirect", "bot", "?", "start",
               "=", "1">>,
             <<"https://", "t", ".me", "/", "redirect", "bot", "?", "q", "=",
               "hello", "+", "world">> }

InitHelpers ==
    /\ api \in {"categorize_views", "clean_youtube_redirect"}
    /\ items = <<>>
    /\ max_workers = MAX_WORKERS
    /\ batch = "returned"
    /\ pc = <<>>
    /\ retries = <<>>
    /\ depth = <<>>
    /\ driver = <<>>
    /\ leaked = <<>>
    /\ got = <<>>
    /\ slept = <<>>
    /\ scanned = <<>>
    /\ links = <<>>
    /\ flow = <<>>
    /\ value = <<>>
    /\ line = <<>>
    /\ site = SampleSite
    /\ results = <<>>
    /\ collected = <<>>
    /\ platform_text = <<>>
    /\ url = <<>>
    /\ label = None
    /\ avg_views \in (IF api = "categorize_views" THEN AvgViews ELSE {None})
    /\ category = Pending
    /\ raw_url \in (IF api = "clean_youtube_redirect" THEN RawUrls ELSE {None})
    /\ unwrapped = Pending
    /\ close_errors = <<>>

\* one call of DataProcessor.categorize_views(avg_views)
Categorize ==
    /\ api = "categorize_views"
    /\ category = Pending
    /\ category' = categorize_views(avg_views)
    /\ UNCHANGED <<batchVars, pc, retries, depth, driver, leaked, got, slept,
                   scanned, links, flow, value, line, platform_text, url,
                   label, avg_views, raw_url, unwrapped>>

\* one call of su.clean_youtube_redirect(raw_url)
CleanRedirect ==
    /\ api = "clean_youtube_redirect"
    /\ unwrapped = Pending
    /\ unwrapped' = clean_youtube_redirect(raw_url)
    /\ UNCHANGED <<batchVars, pc, retries, depth, driver, leaked, got, slept,
                   scanned, links, flow, value, line, platform_text, url,
                   label, avg_views, category, raw_url>>

NextHelpers ==
    \/ Categorize /\ UNCHANGED close_errors
    \/ CleanRedirect /\ UNCHANGED close_errors

SpecHelpers == InitHelpers /\ [][NextHelpers]_vars

(* ------------------------------ claims -------------------------------- *)

\* C1: search_channels returns exactly one record per element of the input
\* list, duplicates included: every future yielded by as_completed
\* contributes one record carrying its own alias; the record of an item
\* whose worker raised carries "Error", every other record carries the value
\* its own worker returned (the URL, or "Not Found" for None); when the run
\* returns, every item has its record.
C1_OneRecordPerItem ==
    api = "search_channels" =>
      /\ Len(results) = Len(collected)
      /\ \A i, j \in 1..Len(collected) : i # j => collected[i] # collected[j]
      /\ \A i \in 1..Len(results) :
           LET t == collected[i] IN
             /\ results[i].alias = items[t]
             /\ flow[t] \in {"raise", "fault"} => results[i].channel_url = Error
             /\ (flow[t] = "return" /\ value[t] # None)
                  => results[i].channel_url = value[t]
             /\ (flow[t] = "return" /\ value[t] = None)
                  => results[i].channel_url = NotFound
      /\ batch = "returned" => Len(results) = Len(items)

\* a finished run over a list with a duplicated alias, where one of the two
\* workers raised and the other returned a URL
C1_Witness ==
    /\ api = "search_channels"
    /\ batch = "returned"
    /\ \E t, u \in Tasks :
         /\ t # u
         /\ items[t] = items[u]
         /\ flow[t] = "fault"
         /\ flow[u] = "return"
         /\ value[u] # None

\* C2: when every attempt the retry budget allows has raised (the call left
\* through the "return None" after the loop, line 105), the record of that
\* alias carries "Error" and not the not-found sentinel.
C2_ExhaustedBudgetYieldsError ==
    api = "search_channels" =>
      \A i \in 1..Len(results) :
        line[collected[i]] = 105 => results[i].channel_url = Error

\* C3: search_single_channel does not give up while the budget lasts: it
\* leaves through the "return None" after the loop only when MAX_RETRIES
\* attempts have raised; an attempt that succeeds after k < MAX_RETRIES
\* failed ones ends the call with that attempt's URL (the direct guess, or
\* the normalized search hit), returned and not raised.
C3_RetryUntilSuccess ==
    [][\A t \in Tasks :
         (api = "search_channels" /\ pc[t] \notin {"queued", "done"}
            /\ pc'[t] = "done")
         => /\ flow'[t] = "return"
            /\ line'[t] = 105 => retries[t] = MAX_RETRIES
            /\ line'[t] # 105 => retries[t] < MAX_RETRIES
            /\ line'[t] = 68 => value'[t] = direct_url(items[t])
            /\ line'[t] = 88
                 => \E h \in Hrefs : value'[t] = normalize_url(h)
            /\ line'[t] \in {68, 88} => value'[t] \notin {None, NotFound, Error}
      ]_vars

\* the last attempt the budget allows is under way, with its own session,
\* after MAX_RETRIES - 1 attempts that raised
C3_Witness ==
    /\ api = "search_channels"
    /\ \E t \in Tasks :
         /\ pc[t] = "body"
         /\ retries[t] = MAX_RETRIES - 1
         /\ driver[t] = "open"

C5_TimeoutIsNotNotFound ==
    \A t \in Tasks :
      (api = "search_channels" /\ pc[t] = "done" /\ line[t] = 91)
        => \E i \in 1..Len(got[t]) : got[t][i]

\* C6: when extract_social_links has returned, every input channel URL is
\* represented in the output.
C6_EveryUrlInOutput ==
    (api = "extract_social_links" /\ batch = "returned")
      => \A t \in Tasks : \E i \in 1..Len(results) :
           results[i].channel_url = items[t]

\* C7: search_channels and extract_social_links never raise to their caller,
\* whatever each worker did, and when they return every item has been
\* processed.
C7_BatchNeverRaises ==
    /\ batch # "raised"
    /\ batch = "returned"
         => \A t \in Tasks : \E i \in 1..Len(collected) : collected[i] = t

\* extract_social_links has returned although a worker raised
C7_Witness ==
    /\ api = "extract_social_links"
    /\ batch = "returned"
    /\ \E t \in Tasks : flow[t] = "fault"
    /\ \E t \in Tasks : flow[t] = "return"

\* the pairs the given anchors contribute, in order
RECURSIVE ExpectedOfAnchors(_)
ExpectedOfAnchors(anchors) ==
    IF anchors = <<>> THEN <<>>
    ELSE PairsOf(Head(anchors).text, Head(anchors).href)
           \o ExpectedOfAnchors(Tail(anchors))

\* the pairs the given entries contribute, in order
ExpectedOfEntries(entries) ==
    ExpectedOfAnchors(SelectSeq(entries, LAMBDA e : e.wellformed))

\* the pairs of the elements extract_single_channel_links has visited
ExpectedSoFar(t) ==
    LET page == site[items[t]] IN
      CASE pc[t] = "description" ->
             ExpectedOfAnchors(SubSeq(page.description, 1, scanned[t]))
        [] pc[t] = "about" ->
             ExpectedOfAnchors(page.description)
               \o ExpectedOfEntries(SubSeq(page.about, 1, scanned[t]))
        [] OTHER -> <<>>

\* C8: extract_single_channel_links never raises; however it ends (normal
\* end, early return, or an exception at any step), it returns exactly the
\* pairs of the elements visited until then.
C8_ReturnsCollectedSoFar ==
    [][\A t \in Tasks :
         (api = "extract_social_links" /\ pc[t] \notin {"queued", "done"}
            /\ pc'[t] = "done")
         => /\ flow'[t] = "return"
            /\ value'[t] = ExpectedSoFar(t)
      ]_vars

\* a call that failed during the description stage (one page load only) and
\* returned the pairs it had collected
C8_Witness ==
    /\ api = "extract_social_links"
    /\ \E t \in Tasks :
         /\ pc[t] = "done"
         /\ line[t] = 232
         /\ got[t] = <<TRUE>>
         /\ value[t] # <<>>

\* C9: at most max_workers worker invocations are in flight; the others wait.
C9_AtMostMaxWorkersInFlight == Cardinality(InFlight) <= max_workers

\* the pool is full and an item waits in the queue
C9_Witness ==
    /\ Cardinality(InFlight) = max_workers
    /\ \E t \in Tasks : pc[t] = "queued"

\* the keyword of each of the first seven branches
Keywords ==
    <<"instagram", "tiktok", "twitter", "facebook", "telegram", "discord",
      "snapchat">>

\* C10: for each platform keyword, its case-insensitive occurrence in the
\* link text alone makes that platform's rule match: the call returns the
\* platform's label unless an earlier rule matches.
C10_TextAloneSuffices ==
    label # Pending =>
      \A i \in 1..Len(Keywords) :
        (/\ Contains(lower(platform_text), <<Keywords[i]>>)
         /\ \A j \in 1..(i - 1) : ~Rule(j, lower(platform_text), lower(url)))
          => label = <<Labels[i]>>

C12_NormalizerTotal ==
    label # Pending =>
      \/ label = None
      \/ \E i \in 1..Len(Labels) : label = <<Labels[i]>>

\* C13: categorize_views returns "N/A" for an absent view count; otherwise
\* the label of the first bin, in the order < 5k, 5k-10k, 10k-25k, 25k-50k,
\* 50k-100k, 100k-250k, 250k-1M, 1M+, whose threshold is strictly greater
\* than the input: a value equal to a threshold falls into the next bin, and
\* zero or negative values fall into "< 5k".
C13_BinsAreUpperExclusive ==
    (api = "categorize_views" /\ category # Pending) =>
      IF avg_views = None THEN category = <<"N/A">>
      ELSE LET v == avg_views[1] IN
             /\ v < 5000 <=> category = <<"< 5k">>
             /\ (5000 <= v /\ v < 10000) <=> category = <<"5k-10k">>
             /\ (10000 <= v /\ v < 25000) <=> category = <<"10k-25k">>
             /\ (25000 <= v /\ v < 50000) <=> category = <<"25k-50k">>
             /\ (50000 <= v /\ v < 100000) <=> category = <<"50k-100k">>
             /\ (100000 <= v /\ v < 250000) <=> category = <<"100k-250k">>
             /\ (250000 <= v /\ v < 1000000) <=> category = <<"250k-1M">>
             /\ 1000000 <= v <=> category = <<"1M+">>
             /\ v = 4999 => category = <<"< 5k">>
             /\ v = 5000 => category = <<"5k-10k">>
             /\ v = 1000000 => category = <<"1M+">>
             /\ v <= 0 => category = <<"< 5k">>

\* a view count equal to the first threshold was put into the second bin
C13_Witness ==
    /\ api = "categorize_views"
    /\ avg_views = <<5000>>
    /\ category = <<"5k-10k">>

\* the URL is a redirect wrapper: its path is /redirect and a query follows
IsRedirectWrapper(u) ==
    /\ IndexOf(u, "?") > 2
    /\ SubSeq(u, IndexOf(u, "?") - 2, IndexOf(u, "?") - 1) = <<"/", "redirect">>

C15_CreationsWithinBudget ==
    \A t \in Tasks :
      (api = "search_channels" /\ pc[t] = "create")
        => retries[t] + depth[t] + 1 <= MAX_RETRIES

\* the outcomes of an attempt that raises nothing and finds no channel
AbsentOutcomes ==
    { <<d, s>> \in DirectOutcomes \X SearchOutcomes :
        /\ ~d[1] \/ d[2] = "missing"
        /\ s \in {<<"timeout">>, <<"empty">>} }

\* C16: an attempt that runs without exception and finds no channel (direct
\* guess not accepted, no channel link on the search page) makes the call
\* return None at once, whatever budget remains: the return at line 91 is
\* taken in the attempt itself, with no backoff wait before it, the
\* attempt's session is closed, and the call acquires nothing afterwards.
C16_AbsenceIsNotRetried ==
    /\ [](\A t \in Tasks :
            (api = "search_channels" /\ pc[t] = "body")
              => \A o \in AbsentOutcomes :
                   LET r == AttemptBody(items[t], o[1], o[2]) IN
                     r.flow = "return" /\ r.value = None /\ r.line = 91)
    /\ [][\A t \in Tasks :
            /\ (api = "search_channels" /\ pc[t] # "done"
                   /\ pc'[t] = "done" /\ line'[t] = 91)
                 => /\ pc[t] = "body"
                    /\ LoopGuard(retries[t])
                    /\ slept[t] = 0
                    /\ flow'[t] = "return"
                    /\ value'[t] = None
                    /\ OpenSessions(t) = 1
                    /\ leaked'[t] = 0 /\ driver'[t] = "none"
            /\ pc[t] = "done" => (pc'[t] = "done" /\ driver'[t] = "none")
         ]_vars

\* a call has returned not-found from an attempt in which both pages loaded
C16_Witness ==
    /\ api = "search_channels"
    /\ \E t \in Tasks :
         /\ pc[t] = "done"
         /\ line[t] = 91
         /\ value[t] = None
         /\ got[t] = <<TRUE, TRUE>>

\* C17: after the n-th failed attempt with n < MAX_RETRIES the call waits
\* 2^n seconds (2, 4, ...) before the next attempt; after the last failed
\* attempt it does not wait; and there is no wait anywhere else, in
\* particular none after an attempt that did not raise.
C17_BackoffSchedule ==
    \A t \in Tasks :
      api = "search_channels" =>
        /\ pc[t] = "backoff"
             => /\ retries[t] \in 1..MAX_RETRIES
                /\ slept[t] = IF retries[t] < MAX_RETRIES
                              THEN <<2, 4, 8, 16, 32>>[retries[t]]
                              ELSE 0
        /\ pc[t] # "backoff" => slept[t] = 0

\* the second failed attempt is followed by a wait of four seconds
C17_Witness ==
    /\ api = "search_channels"
    /\ \E t \in Tasks :
         pc[t] = "backoff" /\ retries[t] = 2 /\ slept[t] = 4

\* C18: an attempt whose direct fetch succeeds on a page without not-found
\* signature returns the direct URL after that single fetch; the search page
\* is fetched only when the direct fetch failed or showed a signature.
C18_FastPathSkipsSearch ==
    \A t \in Tasks :
      api = "search_channels" =>
        /\ (pc[t] = "done" /\ line[t] = 68)
             => (got[t] = <<TRUE>> /\ value[t] = direct_url(items[t]))
        /\ (pc[t] = "done" /\ Len(got[t]) = 2) => line[t] \in {88, 91}
        /\ pc[t] = "body"
             => \A d \in DirectOutcomes, s \in SearchOutcomes :
                  LET r == AttemptBody(items[t], d, s) IN
                    /\ d = <<TRUE, "channel">>
                         => (r.flow = "return" /\ r.line = 68
                               /\ r.got = <<TRUE>>)
                    /\ Len(r.got) = 2 => (~d[1] \/ d[2] = "missing")

\* a call has returned the direct URL of an alias written with a space
C18_Witness ==
    /\ api = "search_channels"
    /\ \E t \in Tasks :
         /\ pc[t] = "done"
         /\ line[t] = 68
         /\ got[t] = <<TRUE>>
         /\ items[t] = <<"a", " ">>
         /\ value[t] = <<"https://www.youtube.com", "/", "@", "a">>

\* C19: when the quit() called by close_driver raises, the call still ends by
\* returning, with the value it returns when the teardown succeeds: the
\* attempt's URL or None for search_single_channel, the pairs collected from
\* the visited elements for extract_single_channel_links; and a teardown
\* failure after a failed attempt does not end the retry loop.
C19_TeardownFailureSwallowed ==
    [][\A t \in Tasks :
         /\ (close_errors'[t] /\ pc[t] # "done" /\ pc'[t] = "done")
              => /\ flow'[t] = "return"
                 /\ api = "extract_social_links"
                      => value'[t] = (IF line'[t] = 169 THEN <<>>
                                      ELSE ExpectedSoFar(t))
                 /\ api = "search_channels"
                      => /\ line'[t] \in {68, 88, 91, 105}
                         /\ line'[t] = 68 => value'[t] = direct_url(items[t])
                         /\ line'[t] = 88
                              => \E h \in Hrefs : value'[t] = normalize_url(h)
                         /\ line'[t] \in {91, 105} => value'[t] = None
         /\ (close_errors'[t] /\ ~close_errors[t] /\ pc[t] = "backoff"
                /\ retries[t] < MAX_RETRIES)
              => pc'[t] = "create"
      ]_vars

\* a call returned a URL or a non-empty list of pairs although closing its
\* session had raised
C19_Witness ==
    \E t \in Tasks :
      /\ pc[t] = "done"
      /\ close_errors[t]
      /\ flow[t] = "return"
      /\ value[t] # None

\* C20: in the official-links scan an entry whose sub-element lookup fails
\* is skipped and every other entry is processed: after any number of
\* entries the collected list is the pairs of the description section
\* followed by the pairs of the well-formed, label-matching entries among
\* those visited, wherever the malformed ones sit, and the scan ends only
\* after the last entry.
C20_BrokenEntrySkipped ==
    \A t \in Tasks :
      (api = "extract_social_links" /\ pc[t] = "about") =>
        LET page == site[items[t]]
            visited == SubSeq(page.about, 1, scanned[t])
        IN /\ scanned[t] <= Len(page.about)
           /\ links[t] = ExpectedOfAnchors(page.description)
                            \o ExpectedOfEntries(visited)
           /\ \A i \in 1..scanned[t] :
                page.about[i] = TikTokEntry
                  => \E k \in 1..Len(links[t]) :
                       links[t][k] = [platform |-> "TikTok",
                                      url |-> TikTokEntry.href]

\* the scan went past a malformed entry and collected the entry after it,
\* keeping the pair of the description section
C20_Witness ==
    /\ api = "extract_social_links"
    /\ \E t \in Tasks :
         /\ pc[t] = "about"
         /\ scanned[t] = 2
         /\ site[items[t]].about = <<BrokenEntry, TikTokEntry>>
         /\ site[items[t]].description = <<InstagramAnchor>>
         /\ links[t] = << [platform |-> "Instagram",
                           url |-> <<"https://", "instagram", ".com", "/", "u">>],
                          [platform |-> "TikTok", url |-> TikTokEntry.href] >>

\* C21: when the fetch of channel_url + "/featured" fails,
\* extract_single_channel_links returns the empty list at once: the call
\* that made a failed first fetch has ended at line 169 with [] after that
\* single fetch and with its session closed, whatever the page holds; the
\* description scan and the about page are reached only after a successful
\* first fetch.
C21_FeaturedFailureReturnsEmpty ==
    \A t \in Tasks :
      api = "extract_social_links" =>
        /\ (Len(got[t]) > 0 /\ ~got[t][1])
             => /\ pc[t] = "done"
                /\ line[t] = 169
                /\ flow[t] = "return"
                /\ value[t] = <<>>
                /\ got[t] = <<FALSE>>
                /\ OpenSessions(t) = 0
        /\ pc[t] \in {"description", "about"}
             => (got[t][1] /\ driver[t] = "open")
        /\ (pc[t] = "done" /\ line[t] = 169) => got[t] = <<FALSE>>

\* a call returned [] after the failed fetch although the description of
\* the page holds a link the Normalizer recognises
C21_Witness ==
    /\ api = "extract_social_links"
    /\ \E t \in Tasks :
         /\ pc[t] = "done"
         /\ line[t] = 169
         /\ value[t] = <<>>
         /\ got[t] = <<FALSE>>
         /\ Len(site[items[t]].description) > 0
         /\ site[items[t]].description[1] = InstagramAnchor

\* the number of rows the futures collected so far account for
RECURSIVE RowsDue(_)
RowsDue(n) ==
    IF n = 0 THEN 0
    ELSE RowsDue(n - 1)
           + (IF flow[collected[n]] = "return" THEN Len(value[collected[n]])
              ELSE 0)

\* C22: in every interleaving of completions, each record of search_channels
\* pairs the alias of an item with the result of the worker invoked on that
\* item, and each row of extract_social_links carries the input URL of an
\* item whose worker returned that (platform, url) pair; there are exactly
\* as many rows as the collected workers returned pairs.
C22_ResultsAttributedToOwnItem ==
    /\ api = "search_channels" =>
         \A i \in 1..Len(results) :
           \E t \in Tasks :
             /\ collected[i] = t
             /\ results[i].alias = items[t]
             /\ results[i].channel_url \in
                  (IF flow[t] # "return" THEN {Error}
                   ELSE IF value[t] = None THEN {NotFound}
                   ELSE {value[t]})
    /\ api = "extract_social_links" =>
         /\ Len(results) = RowsDue(Len(collected))
         /\ \A i \in 1..Len(results) :
              \E n \in 1..Len(collected) :
                LET t == collected[n] IN
                  /\ flow[t] = "return"
                  /\ results[i].channel_url = items[t]
                  /\ \E k \in 1..Len(value[t]) :
                       value[t][k] = [platform |-> results[i].platform,
                                      url |-> results[i].url]

\* extract_social_links has returned rows of two different channels whose
\* workers completed in the reverse of the submission order
C22_Witness ==
    /\ api = "extract_social_links"
    /\ batch = "returned"
    /\ Len(collected) = 2
    /\ collected[1] = 2
    /\ items[1] # items[2]
    /\ \E i, j \in 1..Len(results) :
         /\ results[i].channel_url = items[1]
         /\ results[j].channel_url = items[2]

\* C23: close_driver is never invoked a second time on a session an earlier
\* attempt already closed: when the finally block of search_single_channel
\* is about to run after a failed attempt, the local driver does not refer
\* to a session that has been closed.
C23_NoSecondClose ==
    \A t \in Tasks :
      (api = "search_channels" /\ pc[t] = "backoff") => driver[t] # "closed"

\* the number of open sessions of the tasks 1..n
RECURSIVE OpenSessionsUpTo(_)
OpenSessionsUpTo(n) ==
    IF n = 0 THEN 0 ELSE OpenSessionsUpTo(n - 1) + OpenSessions(n)

PairsOfPage(page) ==
    ExpectedOfAnchors(page.description) \o ExpectedOfEntries(page.about)

\* the pairs of the pages of a batch run, by channel URL
SamplePairs == [u \in ChannelUrls |-> PairsOfPage(SampleSite[u])]

\* the pairs the whole page of task t contributes, in emission order
PagePairs(t) ==
    IF site = SampleSite THEN SamplePairs[items[t]]
    ELSE PairsOfPage(site[items[t]])

\* the rows of the first n collected futures, one future after the other
RECURSIVE RowsInOrder(_)
RowsInOrder(n) ==
    IF n = 0 THEN <<>>
    ELSE LET t == collected[n] IN
           RowsInOrder(n - 1)
             \o (IF flow[t] = "return"
                 THEN [k \in 1..Len(value[t]) |->
                         [channel_url |-> items[t],
                          platform |-> value[t][k].platform,
                          url |-> value[t][k].url]]
                 ELSE <<>>)

\* C25: the list extract_single_channel_links returns is an initial part of
\* the pairs of the description section in page order followed by the pairs
\* of the official-links section in page order; and the output of
\* extract_social_links is, in completion order, the pairs of one worker
\* after those of another, each worker's pairs contiguous and in the order
\* of its list.
C25_EmissionOrder ==
    api = "extract_social_links" =>
      /\ \A t \in Tasks :
           (pc[t] = "done" /\ flow[t] = "return")
             => /\ Len(value[t]) <= Len(PagePairs(t))
                /\ value[t] = SubSeq(PagePairs(t), 1, Len(value[t]))
      /\ results = RowsInOrder(Len(collected))

\* both workers returned every pair of their pages, the second completed
\* first, and the output holds its pair before the three of the first
C25_Witness ==
    /\ api = "extract_social_links"
    /\ batch = "returned"
    /\ collected = <<2, 1>>
    /\ items[1] # items[2]
    /\ Len(value[1]) = 3
    /\ Len(value[2]) = 1
    /\ Len(results) = 4
    /\ results[1].platform = "TikTok"
    /\ results[2].platform = "Instagram"
    /\ results[3].platform = "Telegram"
    /\ results[4].platform = "TikTok"

====
